---- MODULE Spec2Model ----
(***************************************************************************)
(* Checkout / stock / payment-confirmation flow of the SnapCart store.    *)
(*                                                                         *)
(* Three storefront pages drive the same Supabase tables:                  *)
(*   "basic"  : src/app/supermarket/[id]/page.tsx, first component         *)
(*              (no sign-in, decrements stock, clears the cart)            *)
(*   "pay"    : src/app/login/page.tsx (sign-in, Paystack hand-off)        *)
(*   "select" : src/app/supermarket/[id]/page.tsx, second component        *)
(*              (sign-in, supermarket selector, no stock decrement)        *)
(* and two route handlers: /api/pay and /api/paystack-webhook.             *)
(***************************************************************************)
EXTENDS Integers, Sequences, FiniteSets, TLC

\* ------------------------------------------------------------------ bounds
MaxStock == 2
MaxOrders == 2

Products == {"p1", "p2"}
Clients == {"c1", "c2"}
PriceSet == {1, 2}
NoOrder == 0

VARIABLES
  db_products,     \* table products: id -> [price, stock]
  db_orders,       \* table orders: sequence of rows, id = position
  db_order_items,  \* table order_items: sequence of rows
  page,            \* which page a browser has open
  user,            \* the page's user state (TRUE: a user is resolved)
  orders,          \* the page's orders state: ids of the rows it holds
  products,        \* the page's products state (listing)
  cart,            \* the page's cart state
  localStorage,    \* the browser's stored carts: supermarket id -> item
  selectedSupermarket,  \* the supermarket of the page (route parameter or
                   \* the select page's selectedSupermarket)
  effects,         \* the cart effects still to run after a render and the
                   \* state update they have queued
  pc,              \* position of the running handleCheckout, "idle" if none
  co,              \* closure of the running handleCheckout
  result,          \* what handleCheckout last told the user (alert, toast,
                   \* redirect), "none" once the user has acted again
  provider,        \* transactions initialised at the payment provider
  hook             \* last request a route handler got from outside the
                   \* pages (webhook delivery, direct POST to /api/pay) and
                   \* the response it gave

vars == <<db_products, db_orders, db_order_items, page, user, orders, products, cart,
          localStorage, selectedSupermarket, effects, pc, co, result, provider,
          hook>>

storeVars == <<db_products, db_orders, db_order_items>>
viewVars == <<selectedSupermarket, effects>>

\* ------------------------------------------------------------ pure helpers
Min(a, b) == IF a < b THEN a ELSE b
Max(a, b) == IF a > b THEN a ELSE b

\* a product object as the client holds it
Row(p, r) == [id |-> p, price |-> r.price, stock |-> r.stock]

\* prev.find((i) => i.product.id === id) !== undefined
InCart(crt, id) == \E k \in 1..Len(crt) : crt[k].product.id = id

\* prev.find(...): the first matching line
FindLine(crt, id) ==
  crt[CHOOSE k \in 1..Len(crt) :
        /\ crt[k].product.id = id
        /\ \A j \in 1..(k - 1) : crt[j].product.id # id]

CartIds(crt) == {crt[k].product.id : k \in 1..Len(crt)}

\* cart.reduce((sum, i) => sum + i.quantity * i.product.price, 0)
RECURSIVE CartTotal(_)
CartTotal(crt) ==
  IF Len(crt) = 0 THEN 0
  ELSE crt[1].quantity * crt[1].product.price + CartTotal(Tail(crt))

\* addToCart's state updater
addToCart(prev, product) ==
  IF product.stock = 0 THEN prev
  ELSE IF InCart(prev, product.id)
       THEN IF FindLine(prev, product.id).quantity < product.stock
            THEN [k \in 1..Len(prev) |->
                    IF prev[k].product.id = product.id
                    THEN [prev[k] EXCEPT !.quantity = @ + 1]
                    ELSE prev[k]]
            ELSE prev
       ELSE Append(prev, [product |-> product, quantity |-> 1])

\* removeFromCart's state updater
removeFromCart(prev, id) == SelectSeq(prev, LAMBDA i : i.product.id # id)

\* Math.min(Math.max(qty, 1), i.product.stock)
ClampQuantity(qty, stock) == Min(Max(qty, 1), stock)

\* updateQuantity's state updater on the basic and pay pages
updateQuantity(prev, id, qty) ==
  [k \in 1..Len(prev) |->
     IF prev[k].product.id = id
     THEN [prev[k] EXCEPT !.quantity = ClampQuantity(qty, prev[k].product.stock)]
     ELSE prev[k]]

\* updateQuantity on the select page: if (qty <= 0) return; Math.min(qty, stock)
updateQuantitySelect(prev, id, qty) ==
  IF qty <= 0 THEN prev
  ELSE [k \in 1..Len(prev) |->
          IF prev[k].product.id = id
          THEN [prev[k] EXCEPT !.quantity = Min(qty, prev[k].product.stock)]
          ELSE prev[k]]

\* the check made against the stock the cart line carries
LineFails_Snapshot(latest, item) ==
  \/ item.product.id \notin DOMAIN latest
  \/ item.product.stock < item.quantity

\* !latest || latest.stock < item.quantity, for one cart line
LineFails(latest, item) ==
  \/ item.product.id \notin DOMAIN latest
  \/ latest[item.product.id].stock < item.quantity

\* the for-loop over the cart: TRUE when it reaches a failing line
ValidationFails(latest, crt) == \E k \in 1..Len(crt) : LineFails(latest, crt[k])

\* a loop that runs to the end and reports the last failing line
RECURSIVE FirstFailing_Last(_, _)
FirstFailing_Last(latest, crt) ==
  IF ValidationFails(latest, Tail(crt)) THEN FirstFailing_Last(latest, Tail(crt))
  ELSE crt[1]

\* the line at which the for-loop returns (there is one: ValidationFails)
RECURSIVE FirstFailing(_, _)
FirstFailing(latest, crt) ==
  IF LineFails(latest, crt[1]) THEN crt[1]
  ELSE FirstFailing(latest, Tail(crt))

\* alert(`Not enough stock for ${item.product.name}`)
NotEnough(item) == "insufficient " \o item.product.id

\* the alerts of that kind
Insufficient == {"insufficient " \o p : p \in Products}

\* supabase.from("products").select("*").in("id", ids): data, or null on error
SelectIn(ok, ids) ==
  IF ok THEN [p \in ids |-> db_products[p]] ELSE [p \in {} |-> 0]

\* cart.map((i) => ({order_id, product_id, quantity, price}))
OrderItems(crt, oid) ==
  [k \in 1..Len(crt) |->
     [order_id |-> oid, product_id |-> crt[k].product.id,
      quantity |-> crt[k].quantity, price |-> crt[k].product.price]]

NoClosure == [cart |-> <<>>, latest |-> [p \in {} |-> 0], total |-> 0,
              order_id |-> NoOrder, k |-> 0]

NoHook == [kind |-> "none"]

\* localStorage items: getItem gives null for a key never set, or the text
\* JSON.stringify wrote; JSON.parse gives back the cart it was written from
Supermarkets == {"A", "B"}
NoItem == [none |-> TRUE]
Stringify(crt) == [json |-> crt]
Parse(raw) == raw.json

\* if (raw): any JSON text, "[]" included, is a non-empty string
Truthy(raw) == raw # NoItem

\* no effect pending, no update queued; raw: what the load effect read when
\* it first ran for this page and supermarket
NoUpdate == [none |-> TRUE]
Settled(raw) ==
  [at |-> "idle", rendered |-> <<>>, queued |-> NoUpdate, again |-> FALSE,
   raw |-> raw]

\* ------------------------------------------------------------------- init
\* the shelf at the start: MaxStock units of p1, a single unit of p2
InitStock(p) == IF p = "p1" THEN MaxStock ELSE 1

\* a browser that holds raw under cart_A and nothing under other keys
Stored(raw) ==
  [c \in Clients |->
     [s \in Supermarkets |-> IF c = "c1" /\ s = "A" THEN raw ELSE NoItem]]

InitStored(raw) ==
  /\ db_products = [p \in Products |-> [price |-> 1, stock |-> InitStock(p)]]
  /\ db_orders = <<>>
  /\ db_order_items = <<>>
  /\ page = [c \in Clients |-> "none"]
  /\ user = [c \in Clients |-> FALSE]
  /\ orders = [c \in Clients |-> {}]
  /\ products = [c \in Clients |-> [p \in {} |-> 0]]
  /\ cart = [c \in Clients |-> <<>>]
  /\ localStorage = Stored(raw)
  /\ selectedSupermarket = [c \in Clients |-> "A"]
  /\ effects = [c \in Clients |-> Settled(NoItem)]
  /\ pc = [c \in Clients |-> "idle"]
  /\ co = [c \in Clients |-> NoClosure]
  /\ result = [c \in Clients |-> "none"]
  /\ provider = {}
  /\ hook = NoHook

Init == InitStored(NoItem)

\* ------------------------------------------------------- page life cycle
\* localStorage.setItem(`cart_${id}`, JSON.stringify(crt)) in browser c
SetItem(c, crt) ==
  [localStorage EXCEPT ![c][selectedSupermarket[c]] = Stringify(crt)]

\* the save effect that follows a handler's setCart
Persist(c) == localStorage' = SetItem(c, cart'[c])

\* the cart a settled page holds for what getItem returned
Loaded(raw) == IF Truthy(raw) THEN Parse(raw) ELSE <<>>

\* opening (or reloading) a page: state is re-created, the products effect
\* fetches the listing, the cart effect restores the cart of cart_<id>
Mount(c, pg, u) ==
  /\ pc[c] = "idle"
  /\ page' = [page EXCEPT ![c] = pg]
  /\ user' = [user EXCEPT ![c] = u]
  /\ orders' = [orders EXCEPT ![c] = {}]
  /\ products' = [products EXCEPT ![c] = db_products]
  /\ result' = [result EXCEPT ![c] = "none"]
  /\ cart' = [cart EXCEPT ![c] = Loaded(localStorage[c][selectedSupermarket[c]])]
  /\ Persist(c)
  /\ UNCHANGED <<storeVars, viewVars, pc, co, provider, hook>>

MountBasic(c) == Mount(c, "basic", FALSE)

\* The same mount, effect by effect (first component and pay page). The
\* first render holds useState([]); the load effect and the save effect run
\* in that order; strict: React runs both a second time before it renders
\* again (reactStrictMode, development build).
MountEffects(c, pg, u, strict) ==
  /\ pg \in {"basic", "pay"}
  /\ pc[c] = "idle"
  /\ effects[c].at = "idle"
  /\ page' = [page EXCEPT ![c] = pg]
  /\ user' = [user EXCEPT ![c] = u]
  /\ orders' = [orders EXCEPT ![c] = {}]
  /\ products' = [products EXCEPT ![c] = db_products]
  /\ result' = [result EXCEPT ![c] = "none"]
  /\ cart' = [cart EXCEPT ![c] = <<>>]
  /\ effects' = [effects EXCEPT ![c] =
                   [at |-> "load", rendered |-> <<>>, queued |-> NoUpdate,
                    again |-> strict, raw |-> NoItem]]
  /\ UNCHANGED <<storeVars, localStorage, selectedSupermarket, pc, co,
                 provider, hook>>

\* the select's onChange: setSelectedSupermarket(sm); the render that
\* follows holds the cart as it is and runs the load and persist effects
SelectSupermarket(c, sm) ==
  /\ page[c] = "select"
  /\ pc[c] = "idle"
  /\ effects[c].at = "idle"
  /\ sm # selectedSupermarket[c]
  /\ selectedSupermarket' = [selectedSupermarket EXCEPT ![c] = sm]
  /\ effects' = [effects EXCEPT ![c] =
                   [at |-> "load", rendered |-> cart[c], queued |-> NoUpdate,
                    again |-> FALSE, raw |-> NoItem]]
  /\ UNCHANGED <<storeVars, page, user, orders, products, cart, localStorage,
                 pc, co, result, provider, hook>>

\* what the load effect queues: setCart(JSON.parse(raw)) if (raw); the
\* select page's else branch queues setCart([])
LoadUpdate(pg, raw, queued) ==
  IF Truthy(raw) THEN [cart |-> Parse(raw)]
  ELSE IF pg = "select" THEN [cart |-> <<>>]
  ELSE queued

LoadEffect(c) ==
  /\ effects[c].at \in {"load", "load2"}
  /\ LET raw == localStorage[c][selectedSupermarket[c]]
     IN effects' = [effects EXCEPT
                      ![c].queued = LoadUpdate(page[c], raw, @),
                      ![c].raw = IF effects[c].at = "load" THEN raw ELSE @,
                      ![c].at = IF @ = "load" THEN "save" ELSE "save2"]
  /\ UNCHANGED <<storeVars, page, user, orders, products, cart, localStorage,
                 selectedSupermarket, pc, co, result, provider, hook>>

\* the save effect: setItem with the cart of the render it belongs to
SaveEffect(c) ==
  /\ effects[c].at \in {"save", "save2"}
  /\ localStorage' = SetItem(c, effects[c].rendered)
  /\ effects' = [effects EXCEPT
                   ![c].at = IF @ = "save" /\ effects[c].again THEN "load2"
                             ELSE "flush"]
  /\ UNCHANGED <<storeVars, page, user, orders, products, cart,
                 selectedSupermarket, pc, co, result, provider, hook>>

\* the queued update is applied and the page renders again: the cart
\* changed, so the save effect runs once more; without an update the page
\* has settled
Flush(c) ==
  /\ effects[c].at = "flush"
  /\ IF effects[c].queued = NoUpdate
     THEN /\ effects' = [effects EXCEPT ![c] = Settled(effects[c].raw)]
          /\ UNCHANGED cart
     ELSE /\ cart' = [cart EXCEPT ![c] = effects[c].queued.cart]
          /\ effects' = [effects EXCEPT
                           ![c].at = "save2",
                           ![c].rendered = effects[c].queued.cart,
                           ![c].queued = NoUpdate]
  /\ UNCHANGED <<storeVars, page, user, orders, products, localStorage,
                 selectedSupermarket, pc, co, result, provider, hook>>
MountPay(c) == \E u \in BOOLEAN : Mount(c, "pay", u)
MountSelect(c) == \E u \in BOOLEAN : Mount(c, "select", u)

\* realtime postgres_changes event on products (pay page): the row replaces
\* the listed one, or is added to the listing
RealtimeProduct(c, p) ==
  /\ page[c] = "pay"
  /\ products' = [products EXCEPT ![c] =
       [q \in (DOMAIN @) \cup {p} |-> IF q = p THEN db_products[p] ELSE @[q]]]
  /\ products'[c] # products[c]
  /\ UNCHANGED <<storeVars, page, user, viewVars, orders, cart, localStorage, pc, co, result, provider, hook>>

\* ------------------------------------------------------------- cart steps
\* the orders of a user: .eq("user_id", user.id) on the orders query
OwnOrders(rows, uid) == {k \in DOMAIN rows : rows[k].user_id = uid}

\* the orders effect once the user is known (the role is not admin)
FetchOrders(c) ==
  /\ page[c] \in {"pay", "select"}
  /\ user[c]
  /\ orders' = [orders EXCEPT ![c] = OwnOrders(db_orders, c)]
  /\ UNCHANGED <<storeVars, page, user, viewVars, products, cart, localStorage, pc, co, result,
                 provider, hook>>

\* realtime postgres_changes event on orders (pay page) carrying row k as
\* payload.new: the row replaces the held one or is put in front
RealtimeOrder(c, k) ==
  /\ page[c] = "pay"
  /\ user[c]
  /\ k \in DOMAIN db_orders
  /\ orders' = [orders EXCEPT ![c] = @ \cup {k}]
  /\ UNCHANGED <<storeVars, page, user, viewVars, products, cart, localStorage, pc, co, result,
                 provider, hook>>

AddToCart(c, p) ==
  /\ page[c] # "none"
  /\ effects[c].at = "idle"
  /\ p \in DOMAIN products[c]
  /\ cart' = [cart EXCEPT ![c] = addToCart(@, Row(p, products[c][p]))]
  /\ result' = [result EXCEPT ![c] = "none"]
  /\ Persist(c)
  /\ UNCHANGED <<storeVars, page, user, viewVars, orders, products, pc, co, provider, hook>>

RemoveFromCart(c, p) ==
  /\ page[c] # "none"
  /\ effects[c].at = "idle"
  /\ InCart(cart[c], p)
  /\ cart' = [cart EXCEPT ![c] = removeFromCart(@, p)]
  /\ result' = [result EXCEPT ![c] = "none"]
  /\ Persist(c)
  /\ UNCHANGED <<storeVars, page, user, viewVars, orders, products, pc, co, provider, hook>>

\* the - and + buttons: updateQuantity(id, item.quantity -/+ 1)
UpdateQuantity(c, p, d) ==
  /\ page[c] # "none"
  /\ effects[c].at = "idle"
  /\ InCart(cart[c], p)
  /\ LET qty == FindLine(cart[c], p).quantity + d
     IN cart' = [cart EXCEPT ![c] =
                   IF page[c] = "select" THEN updateQuantitySelect(@, p, qty)
                   ELSE updateQuantity(@, p, qty)]
  /\ result' = [result EXCEPT ![c] = "none"]
  /\ Persist(c)
  /\ UNCHANGED <<storeVars, page, user, viewVars, orders, products, pc, co, provider, hook>>

\* --------------------------------------------------------- handleCheckout
UserId(c) == IF page[c] = "basic" THEN "anon" ELSE c

\* orders that exist or are about to be inserted
OrdersInFlight == Len(db_orders) + Cardinality({c \in Clients : pc[c] = "order"})

Finish(c, r) ==
  /\ pc' = [pc EXCEPT ![c] = "idle"]
  /\ co' = [co EXCEPT ![c] = NoClosure]
  /\ result' = [result EXCEPT ![c] = r]

\* a sign-in guard that lets everybody through
NeedsLogin_Never(c) == FALSE

\* if (!user): the guard the two signed-in pages start handleCheckout with
NeedsLogin(c) == page[c] # "basic" /\ ~user[c]

\* handleCheckout up to the order insert: guards, batched re-fetch,
\* validation loop, total
handleCheckout(c, ok) ==
  /\ page[c] # "none"
  /\ pc[c] = "idle"
  /\ UNCHANGED <<storeVars, page, user, viewVars, orders, products, cart, localStorage, provider, hook>>
  /\ IF NeedsLogin(c) THEN Finish(c, "login")
     ELSE IF Len(cart[c]) = 0 THEN Finish(c, "empty")
     ELSE LET latest == SelectIn(ok, CartIds(cart[c]))
          IN IF ValidationFails(latest, cart[c])
             THEN Finish(c, NotEnough(FirstFailing(latest, cart[c])))
             ELSE /\ OrdersInFlight < MaxOrders
                  /\ pc' = [pc EXCEPT ![c] = "order"]
                  /\ co' = [co EXCEPT ![c] =
                              [cart |-> cart[c], latest |-> latest,
                               total |-> CartTotal(cart[c]),
                               order_id |-> NoOrder, k |-> 0]]
                  /\ result' = [result EXCEPT ![c] = "none"]

\* supabase.from("orders").insert([...]).select().single()
NewOrder(c) ==
  [id |-> Len(db_orders) + 1, user_id |-> UserId(c),
   total_amount |-> co[c].total, status |-> "pending"]

InsertOrder(c, ok) ==
  /\ pc[c] = "order"
  /\ UNCHANGED <<db_products, db_order_items, page, user, viewVars, orders, products, cart, localStorage,
                 provider, hook>>
  /\ IF ok
     THEN /\ db_orders' = Append(db_orders, NewOrder(c))
          /\ co' = [co EXCEPT ![c].order_id = Len(db_orders) + 1]
          /\ pc' = [pc EXCEPT ![c] = "items"]
          /\ UNCHANGED result
     ELSE /\ UNCHANGED db_orders
          /\ Finish(c, "error")

\* the orders query that ends a checkout of the second component: every
\* row of the selected supermarket
RefreshedOrders(rows) == DOMAIN rows

\* supabase.from("order_items").insert(orderItems) and what follows it
InsertItems(c, ok) ==
  /\ pc[c] = "items"
  /\ UNCHANGED <<db_products, db_orders, page, user, selectedSupermarket,
                 effects, products, provider, hook>>
  /\ db_order_items' =
       IF ok THEN db_order_items \o OrderItems(co[c].cart, co[c].order_id)
       ELSE db_order_items
  /\ CASE page[c] = "basic" ->
            IF ok
            THEN /\ pc' = [pc EXCEPT ![c] = "stock"]
                 /\ co' = [co EXCEPT ![c].k = 1]
                 /\ UNCHANGED <<cart, localStorage, result, orders>>
            ELSE /\ Finish(c, "error")
                 /\ UNCHANGED <<cart, localStorage, orders>>
       [] page[c] = "pay" ->
            /\ pc' = [pc EXCEPT ![c] = "pay"]
            /\ UNCHANGED <<co, cart, localStorage, result, orders>>
       [] OTHER ->
            /\ cart' = [cart EXCEPT ![c] = <<>>]
            /\ Persist(c)
            /\ orders' = [orders EXCEPT ![c] = RefreshedOrders(db_orders)]
            /\ Finish(c, "placed")

\* the stock written for one cart line: i.product.stock - i.quantity
NewStock(item) == item.product.stock - item.quantity

\* one turn of the for-loop of stock updates; after the last one the cart
\* is cleared
UpdateStock(c, ok) ==
  /\ pc[c] = "stock"
  /\ UNCHANGED <<db_orders, db_order_items, page, user, viewVars, orders, products, result,
                 provider, hook>>
  /\ LET item == co[c].cart[co[c].k]
     IN db_products' =
          IF ok THEN [db_products EXCEPT ![item.product.id].stock = NewStock(item)]
          ELSE db_products
  /\ IF co[c].k = Len(co[c].cart)
     THEN /\ cart' = [cart EXCEPT ![c] = <<>>]
          /\ Persist(c)
          /\ pc' = [pc EXCEPT ![c] = "refresh"]
          /\ UNCHANGED co
     ELSE /\ co' = [co EXCEPT ![c].k = @ + 1]
          /\ UNCHANGED <<cart, localStorage, pc>>

\* the products refresh that ends a basic checkout
Refresh(c) ==
  /\ pc[c] = "refresh"
  /\ products' = [products EXCEPT ![c] = db_products]
  /\ Finish(c, "placed")
  /\ UNCHANGED <<storeVars, page, user, viewVars, orders, cart, localStorage, provider, hook>>

\* ------------------------------------------------------ /api/pay (route)
Email(c) == c

\* the fields the route destructures from the body
PayFields == {"email", "amount", "reference"}

\* !x for a field of the body: undefined when the body has no such field,
\* and "" and 0 are falsy too
Falsy(body, f) ==
  f \notin DOMAIN body \/ body[f] = (IF f = "email" THEN "" ELSE 0)

\* a required-field check that only asks for the fields to be there
MissingFields_AbsentOnly(body) == \E f \in PayFields : f \notin DOMAIN body

\* if (!email || !amount || !reference)
MissingFields(body) == \E f \in PayFields : Falsy(body, f)

\* a request body that req.json() cannot parse
NotJson == [notjson |-> TRUE]

\* the response of POST /api/pay; outcome is what the provider call does:
\* "ok", "rejected" (paystackRes.ok false) or "throw" (network error);
\* called: the provider call was made
PayPOST(body, outcome) ==
  IF body = NotJson THEN [status |-> 500, url |-> FALSE, called |-> FALSE]
  ELSE IF MissingFields(body) THEN [status |-> 400, url |-> FALSE, called |-> FALSE]
  ELSE IF outcome = "ok" THEN [status |-> 200, url |-> TRUE, called |-> TRUE]
  ELSE IF outcome = "rejected" THEN [status |-> 400, url |-> FALSE, called |-> TRUE]
  ELSE [status |-> 500, url |-> FALSE, called |-> TRUE]

\* a provider call that forwards the amount as it came
ProviderRequest_Unconverted(body) ==
  [email |-> body.email, amount |-> body.amount, reference |-> body.reference]

\* body of the provider call: amount * 100 (kobo), same email and reference
ProviderRequest(body) ==
  [email |-> body.email, amount |-> body.amount * 100, reference |-> body.reference]

\* a pay branch that marks the order failed when no authorization_url came
Pay_MarkFailed(c) ==
  /\ pc[c] = "pay"
  /\ UNCHANGED <<db_products, db_order_items, page, user, viewVars, orders, products, cart, localStorage, hook>>
  /\ \E outcome \in {"ok", "rejected", "throw"} :
       LET body == [email |-> Email(c), amount |-> co[c].total,
                    reference |-> co[c].order_id]
           res == PayPOST(body, outcome)
       IN /\ provider' = IF res.called /\ outcome = "ok"
                         THEN provider \cup {ProviderRequest(body)}
                         ELSE provider
          /\ db_orders' = IF res.url THEN db_orders
                          ELSE [db_orders EXCEPT ![co[c].order_id].status = "failed"]
          /\ Finish(c, IF res.url THEN "redirect" ELSE "payfail")

\* fetch("/api/pay") from the pay page and the branch on authorization_url;
\* a fetch that rejects lands in the catch block
Pay(c) ==
  /\ pc[c] = "pay"
  /\ UNCHANGED <<storeVars, page, user, viewVars, orders, products, cart, localStorage, hook>>
  /\ \/ \E outcome \in {"ok", "rejected", "throw"} :
          LET body == [email |-> Email(c), amount |-> co[c].total,
                       reference |-> co[c].order_id]
              res == PayPOST(body, outcome)
          IN /\ provider' = IF res.called /\ outcome = "ok"
                            THEN provider \cup {ProviderRequest(body)}
                            ELSE provider
             /\ Finish(c, IF res.url THEN "redirect" ELSE "payfail")
     \/ /\ UNCHANGED provider
        /\ Finish(c, "error")

\* bodies a client can POST to /api/pay: every field present (possibly ""
\* or 0), one field left out, or no JSON at all
FullPayBodies ==
  [email : {"", "c1"}, amount : 0..MaxStock, reference : {NoOrder, 1}]

PayBodies ==
  FullPayBodies
    \cup {[amount |-> b.amount, reference |-> b.reference] : b \in FullPayBodies}
    \cup {[email |-> b.email, reference |-> b.reference] : b \in FullPayBodies}
    \cup {[email |-> b.email, amount |-> b.amount] : b \in FullPayBodies}
    \cup {NotJson}

\* a POST to /api/pay from any HTTP client
PayRequest(body, outcome) ==
  LET res == PayPOST(body, outcome)
  IN /\ provider' = IF res.url THEN provider \cup {ProviderRequest(body)}
                    ELSE provider
     /\ hook' = [kind |-> "pay", body |-> body, outcome |-> outcome,
                 status |-> res.status, called |-> res.called]
     /\ UNCHANGED <<storeVars, page, user, viewVars, orders, products, cart, localStorage, pc, co, result>>

\* ------------------------------------------- /api/paystack-webhook (route)
Secret == "PAYSTACK_SECRET_KEY"

\* header values are sequences of parts: the absent header, the empty string
Null == <<"null">>
Empty == <<>>

\* hex HMAC-SHA512 of a body under a key: distinct for distinct (key, body)
Hmac(key, body) == <<"sha512", key, body>>

Events == {"charge.success", "charge.failed", "transfer.success"}
References == {1, 2}

\* raw request bodies: event notifications, JSON without data, not JSON
Bodies ==
  [kind : {"event"}, event : Events, reference : References]
    \cup {[kind |-> "nodata"], [kind |-> "malformed"]}

SomeBody == [kind |-> "event", event |-> "charge.success", reference |-> 1]

\* x-paystack-signature as sent: absent, empty, the HMAC of this body, the
\* HMAC of another body under the secret, an HMAC under another key
Signatures(body) ==
  {Null, Empty, Hmac(Secret, body), Hmac("guess", body),
   Hmac(Secret, IF body = SomeBody THEN [kind |-> "nodata"] ELSE SomeBody)}

\* a check that only asks for the header to be there
verifySignature_Present(payload, signature) ==
  ~(signature = Null \/ signature = Empty)

verifySignature(payload, signature) ==
  IF signature = Null \/ signature = Empty THEN FALSE
  ELSE Hmac(Secret, payload) = signature

\* const amount = event.data.amount / 100: the quotient as whole units and
\* remaining hundredths (the division is exact on multiples of 100)
FromKobo(minor) == [whole |-> minor \div 100, cents |-> minor % 100]

\* JSON.parse(rawBody) and the reads of event.data.reference succeed
Parses(body) == body.kind = "event"

\* the status the handler writes for an event type, "" if it writes none
StatusFor(event) ==
  IF event = "charge.success" THEN "paid"
  ELSE IF event = "charge.failed" THEN "failed"
  ELSE ""

\* an upsert: a reference that matches no row adds one
UpdateStatus_Upsert(rows, reference, status) ==
  IF \E k \in 1..Len(rows) : rows[k].id = reference
  THEN [k \in 1..Len(rows) |->
          IF rows[k].id = reference THEN [rows[k] EXCEPT !.status = status]
          ELSE rows[k]]
  ELSE Append(rows, [id |-> reference, user_id |-> "", total_amount |-> 0,
                     status |-> status])

\* the update without its .eq("id", reference) filter
UpdateStatus_NoFilter(rows, reference, status) ==
  [k \in 1..Len(rows) |-> [rows[k] EXCEPT !.status = status]]

\* supabase.from("orders").update({status}).eq("id", reference)
UpdateStatus(rows, reference, status) ==
  [k \in 1..Len(rows) |->
     IF rows[k].id = reference THEN [rows[k] EXCEPT !.status = status]
     ELSE rows[k]]

\* the handler reaches one of its two update calls
Writes(body, signature) ==
  /\ verifySignature(body, signature)
  /\ Parses(body)
  /\ StatusFor(body.event) # ""

\* the table after POST handled (body, signature); ok: the store applied
\* the update (the handler does not read the error an update resolves with)
WebhookOrders(rows, body, signature, ok) ==
  IF Writes(body, signature) /\ ok
  THEN UpdateStatus(rows, body.reference, StatusFor(body.event))
  ELSE rows

\* a catch block that acknowledges instead of answering 500
WebhookStatus_Swallow(body, signature) ==
  IF ~verifySignature(body, signature) THEN 401 ELSE 200

\* the HTTP status of the response
WebhookStatus(body, signature) ==
  IF ~verifySignature(body, signature) THEN 401
  ELSE IF ~Parses(body) THEN 500
  ELSE 200

WebhookPOST(body, signature, ok) ==
  /\ db_orders' = WebhookOrders(db_orders, body, signature, ok)
  /\ hook' = [kind |-> "request", body |-> body, signature |-> signature,
              status |-> WebhookStatus(body, signature)]
  /\ UNCHANGED <<db_products, db_order_items, page, user, viewVars, orders, products, cart, localStorage, pc,
                 co, result, provider>>

Webhook == \E body \in Bodies : \E signature \in Signatures(body) :
             \E ok \in (IF Writes(body, signature) THEN BOOLEAN ELSE {TRUE}) :
               WebhookPOST(body, signature, ok)

\* ------------------------------------------------- writes from outside
\* the products table is also written by tooling (sync-products.js upsert)
AdminSetStock(p, v) ==
  /\ v # db_products[p].stock
  /\ db_products' = [db_products EXCEPT ![p].stock = v]
  /\ UNCHANGED <<db_orders, db_order_items, page, user, viewVars, orders, products, cart, localStorage, pc, co,
                 result, provider, hook>>

AdminSetPrice(p, v) ==
  /\ v # db_products[p].price
  /\ db_products' = [db_products EXCEPT ![p].price = v]
  /\ UNCHANGED <<db_orders, db_order_items, page, user, viewVars, orders, products, cart, localStorage, pc, co,
                 result, provider, hook>>

\* ------------------------------------------------------- specifications
CartStep(c, P) ==
  \/ \E p \in P : AddToCart(c, p)
  \/ \E p \in P : RemoveFromCart(c, p)
  \/ \E p \in P, d \in {-1, 1} : UpdateQuantity(c, p, d)

\* a store call that may resolve with an error
Unreliable(c) ==
  \E ok \in BOOLEAN :
    \/ handleCheckout(c, ok)
    \/ InsertOrder(c, ok)
    \/ InsertItems(c, ok)
    \/ UpdateStock(c, ok)

\* the same calls when the store answers every one of them
Reliable(c) ==
  \/ handleCheckout(c, TRUE)
  \/ InsertOrder(c, TRUE)
  \/ InsertItems(c, TRUE)
  \/ UpdateStock(c, TRUE)

\* the whole system: any browser on any page, the routes, outside writes
Next ==
  \/ \E c \in Clients : MountBasic(c)
  \/ \E c \in Clients : MountPay(c)
  \/ \E c \in Clients : MountSelect(c)
  \/ \E c \in Clients, p \in Products : RealtimeProduct(c, p)
  \/ \E c \in Clients : CartStep(c, Products)
  \/ \E c \in Clients : Unreliable(c)
  \/ \E c \in Clients : Refresh(c)
  \/ \E c \in Clients : Pay(c)
  \/ \E body \in PayBodies, outcome \in {"ok", "rejected", "throw"} :
       PayRequest(body, outcome)
  \/ Webhook
  \/ \E p \in Products, v \in 0..MaxStock : AdminSetStock(p, v)
  \/ \E p \in Products, v \in PriceSet : AdminSetPrice(p, v)

Spec == Init /\ [][Next]_vars

\* Two browsers on the basic page shopping for p1; nobody restocks and the
\* store answers every call.
NextRace ==
  \/ \E c \in Clients : MountBasic(c)
  \/ \E c \in Clients : CartStep(c, {"p1"})
  \/ \E c \in Clients : Reliable(c)
  \/ \E c \in Clients : Refresh(c)

SpecRace == Init /\ [][NextRace]_vars

\* One browser on the basic page shopping for p1 while p1 is restocked.
NextRestock ==
  \/ MountBasic("c1")
  \/ CartStep("c1", {"p1"})
  \/ Reliable("c1")
  \/ Refresh("c1")
  \/ \E v \in 0..MaxStock : AdminSetStock("p1", v)

SpecRestock == Init /\ [][NextRestock]_vars

\* Checkouts of one browser, on any page, from every cart it can hold
\* against every content of the products table.
PersistedLines(p) ==
  IF p = "p1"
  THEN {[product |-> [id |-> p, price |-> pr, stock |-> st], quantity |-> q] :
          pr \in PriceSet, st \in 1..MaxStock, q \in 1..MaxStock}
  ELSE {[product |-> [id |-> p, price |-> 1, stock |-> 1], quantity |-> 1]}

PersistedCarts ==
  {<<>>}
    \cup {<<l>> : l \in PersistedLines("p1") \cup PersistedLines("p2")}
    \cup {<<l1, l2>> : l1 \in PersistedLines("p1"), l2 \in PersistedLines("p2")}
    \cup {<<l2, l1>> : l1 \in PersistedLines("p1"), l2 \in PersistedLines("p2")}

InitGate ==
  /\ db_products \in
       {[p \in Products |->
           IF p = "p1" THEN [price |-> pr, stock |-> st]
           ELSE [price |-> 1, stock |-> st2]] :
          pr \in PriceSet, st \in 0..MaxStock, st2 \in 0..1}
  /\ db_orders = <<>>
  /\ db_order_items = <<>>
  /\ \E pg \in {"basic", "pay", "select"}, u \in BOOLEAN :
       /\ pg = "basic" => ~u
       /\ page = [c \in Clients |-> IF c = "c1" THEN pg ELSE "none"]
       /\ user = [c \in Clients |-> c = "c1" /\ u]
  /\ orders = [c \in Clients |-> {}]
  /\ products = [c \in Clients |-> IF c = "c1" THEN db_products ELSE [p \in {} |-> 0]]
  /\ \E crt \in PersistedCarts :
       /\ cart = [c \in Clients |-> IF c = "c1" THEN crt ELSE <<>>]
       /\ localStorage = Stored(Stringify(crt))
  /\ selectedSupermarket = [c \in Clients |-> "A"]
  /\ effects = [c \in Clients |-> Settled(NoItem)]
  /\ pc = [c \in Clients |-> "idle"]
  /\ co = [c \in Clients |-> NoClosure]
  /\ result = [c \in Clients |-> "none"]
  /\ provider = {}
  /\ hook = NoHook

NextGate ==
  \/ Unreliable("c1")
  \/ Refresh("c1")
  \/ Pay("c1")

SpecGate == InitGate /\ [][NextGate]_vars

\* One browser on the pay page, the pay route and the webhook route.
NextHook ==
  \/ MountPay("c1")
  \/ AddToCart("c1", "p1")
  \/ handleCheckout("c1", TRUE)
  \/ InsertOrder("c1", TRUE)
  \/ InsertItems("c1", TRUE)
  \/ Pay("c1")
  \/ Webhook

SpecHook == Init /\ [][NextHook]_vars

\* The pay route alone, posted to by any client.
NextPay ==
  \E body \in PayBodies, outcome \in {"ok", "rejected", "throw"} :
    PayRequest(body, outcome)

SpecPay == Init /\ [][NextPay]_vars

\* One browser on the pay page filling its cart while the products table
\* is written from outside and the realtime channel updates the listing.
NextCart ==
  \/ MountPay("c1")
  \/ CartStep("c1", Products)
  \/ \E p \in Products : RealtimeProduct("c1", p)
  \/ \E p \in Products, v \in 0..MaxStock : AdminSetStock(p, v)

SpecCart == Init /\ [][NextCart]_vars

\* The gateway's notification for a transaction it was asked to start: it
\* echoes the reference and reports the amount of that request, in kobo.
Notification(req) ==
  [kind |-> "event", event |-> "charge.success", reference |-> req.reference,
   amount |-> req.amount]

Confirm ==
  \E req \in provider, ok \in BOOLEAN :
    WebhookPOST(Notification(req), Hmac(Secret, Notification(req)), ok)

\* The pay page's checkout, /api/pay posted to by the page or by any other
\* client, and the gateway confirming the charges it was asked for.
NextAmount ==
  \/ MountPay("c1")
  \/ AddToCart("c1", "p1")
  \/ handleCheckout("c1", TRUE)
  \/ InsertOrder("c1", TRUE)
  \/ InsertItems("c1", TRUE)
  \/ Pay("c1")
  \/ \E body \in FullPayBodies, outcome \in {"ok", "rejected", "throw"} :
       PayRequest(body, outcome)
  \/ Confirm

SpecAmount == Init /\ [][NextAmount]_vars

\* Two signed-in or anonymous browsers on the pages that list orders.
NextOrders ==
  \E c \in Clients :
    \/ MountPay(c)
    \/ MountSelect(c)
    \/ FetchOrders(c)
    \/ \E k \in 1..MaxOrders : RealtimeOrder(c, k)
    \/ AddToCart(c, "p1")
    \/ handleCheckout(c, TRUE)
    \/ InsertOrder(c, TRUE)
    \/ InsertItems(c, TRUE)
    \/ Pay(c)

SpecOrders == Init /\ [][NextOrders]_vars

\* A browser that holds a stored cart opens the first component or the pay
\* page, in a production or a development build.
InitMount ==
  \E crt \in PersistedCarts : \E raw \in {NoItem, Stringify(crt)} :
    InitStored(raw)

NextMount ==
  \/ \E u \in BOOLEAN, strict \in BOOLEAN :
       MountEffects("c1", IF u THEN "pay" ELSE "basic", u, strict)
  \/ LoadEffect("c1")
  \/ SaveEffect("c1")
  \/ Flush("c1")

SpecMount == InitMount /\ [][NextMount]_vars

\* The select page: supermarket A lists p1 and supermarket B lists p2
\* (.eq("supermarket_id", selectedSupermarket.id) on the products query).
SupermarketOf(p) == IF p = "p1" THEN "A" ELSE "B"

AddListed(c, p) ==
  /\ SupermarketOf(p) = selectedSupermarket[c]
  /\ AddToCart(c, p)

NextSwitch ==
  \/ MountSelect("c1")
  \/ \E p \in Products : AddListed("c1", p)
  \/ \E p \in Products : RemoveFromCart("c1", p)
  \/ \E p \in Products, d \in {-1, 1} : UpdateQuantity("c1", p, d)
  \/ \E sm \in Supermarkets : SelectSupermarket("c1", sm)
  \/ LoadEffect("c1")
  \/ SaveEffect("c1")
  \/ Flush("c1")

SpecSwitch == Init /\ [][NextSwitch]_vars

\* ------------------------------------------------------------------ claims
HasUser(c) == page[c] = "basic" \/ user[c]

\* some line of the cart asks for more than the products table holds
Short(c) ==
  \E k \in 1..Len(cart[c]) :
    cart[c][k].quantity > db_products[cart[c][k].product.id].stock

\* C1: a handleCheckout that reaches the re-fetch with a cart in which some
\* line asks for more than the re-fetched stock (or whose re-fetch returns no
\* row for a line) reports insufficient stock, returns, and leaves orders,
\* order_items and every product's stock as they were; and a handleCheckout
\* that goes on to insert an order has found every line in the re-fetch with
\* enough stock.
C1_ValidationGate ==
  [][\A c \in Clients : \A ok \in BOOLEAN :
       handleCheckout(c, ok) =>
         /\ (HasUser(c) /\ Len(cart[c]) > 0 /\ (Short(c) \/ ~ok)) =>
              /\ result'[c] \in Insufficient
              /\ pc'[c] = "idle"
              /\ co'[c] = NoClosure
              /\ db_orders' = db_orders
              /\ db_order_items' = db_order_items
              /\ db_products' = db_products
         /\ pc'[c] = "order" =>
              \A k \in 1..Len(cart[c]) :
                /\ cart[c][k].product.id \in DOMAIN co'[c].latest
                /\ co'[c].latest[cart[c][k].product.id] =
                     db_products[cart[c][k].product.id]
                /\ cart[c][k].quantity <=
                     db_products[cart[c][k].product.id].stock]_vars

\* a two-line cart, one line covered by the stock and one not, was refused
\* while the ledger is empty
C1_Witness ==
  \E c \in Clients :
    /\ result[c] \in Insufficient
    /\ pc[c] = "idle"
    /\ Len(cart[c]) = 2
    /\ Short(c)
    /\ \E k \in 1..2 :
         cart[c][k].quantity <= db_products[cart[c][k].product.id].stock
    /\ \E k \in 1..2 : cart[c][k].quantity <= cart[c][k].product.stock
                        /\ cart[c][k].quantity >
                             db_products[cart[c][k].product.id].stock
    /\ db_orders = <<>>
    /\ db_order_items = <<>>

\* C2: when a basic checkout has made all its stock writes, each purchased
\* product's stock is the stock the checkout re-fetched minus the line's
\* quantity, and the product it did not buy still has its initial stock.
C2_StockDecrement ==
  \A c \in Clients :
    pc[c] = "refresh" =>
      /\ \A k \in 1..Len(co[c].cart) :
           LET item == co[c].cart[k]
           IN db_products[item.product.id].stock =
                co[c].latest[item.product.id].stock - item.quantity
      /\ \A p \in Products \ CartIds(co[c].cart) :
           db_products[p].stock = InitStock(p)

\* C3: every product's stock in the products table is >= 0.
C3_StockNonNegative == \A p \in Products : db_products[p].stock >= 0

\* the quantities of p in the rows of order_items
RECURSIVE Sold(_, _)
Sold(rows, p) ==
  IF Len(rows) = 0 THEN 0
  ELSE (IF rows[1].product_id = p THEN rows[1].quantity ELSE 0)
         + Sold(Tail(rows), p)

\* C4: the quantity of a product in all order_items never exceeds the stock
\* the product had at the start.
C4_NoOversell == \A p \in Products : Sold(db_order_items, p) <= InitStock(p)

\* sum of quantity * re-fetched price over the cart lines
RECURSIVE FreshTotal(_, _)
FreshTotal(crt, latest) ==
  IF Len(crt) = 0 THEN 0
  ELSE crt[1].quantity * latest[crt[1].product.id].price
         + FreshTotal(Tail(crt), latest)

\* C5: the total_amount of the order a checkout has inserted is the sum over
\* its cart lines of quantity times the re-fetched price.
C5_FreshPriceTotal ==
  \A c \in Clients :
    co[c].order_id # NoOrder =>
      db_orders[co[c].order_id].total_amount = FreshTotal(co[c].cart, co[c].latest)

\* sum of quantity * price, and number, of the order_items rows of an order
RECURSIVE ItemsTotal(_, _)
ItemsTotal(rows, oid) ==
  IF Len(rows) = 0 THEN 0
  ELSE (IF rows[1].order_id = oid THEN rows[1].quantity * rows[1].price ELSE 0)
         + ItemsTotal(Tail(rows), oid)

ItemsCount(rows, oid) == Len(SelectSeq(rows, LAMBDA r : r.order_id = oid))

\* C6: when the handleCheckout that inserted an order returns, with success
\* or with an error, the order's order_items sum to its total_amount and
\* there is one row per cart line.
C6_ItemsMatchTotal ==
  [][\A c \in Clients :
       (co[c].order_id # NoOrder /\ pc'[c] = "idle") =>
          /\ ItemsTotal(db_order_items', co[c].order_id) =
               db_orders'[co[c].order_id].total_amount
          /\ ItemsCount(db_order_items', co[c].order_id) = Len(co[c].cart)]_vars

\* the header is absent, empty, or not the HMAC of this body under the secret
BadSignature(body, signature) ==
  signature = Null \/ signature = Empty \/ signature # <<"sha512", Secret, body>>

\* a step of the webhook route: a request has been answered and no browser
\* and no other route has moved
WebhookStep ==
  /\ hook'.kind = "request"
  /\ UNCHANGED <<db_products, db_order_items, page, user, viewVars, orders, products, cart, localStorage, pc,
                 co, result, provider>>

\* C7: a webhook request with a bad signature is answered 401 and changes
\* no order, whatever its body.
C7_BadSignatureRejected ==
  [][(WebhookStep /\ BadSignature(hook'.body, hook'.signature)) =>
        (hook'.status = 401 /\ db_orders' = db_orders)]_vars

\* a charge.success for an existing pending order, signed for another body,
\* was answered 401 and the order is still pending
C7_Witness ==
  /\ hook.kind = "request"
  /\ hook.status = 401
  /\ hook.body.kind = "event"
  /\ hook.body.event = "charge.success"
  /\ Len(hook.signature) = 3
  /\ hook.signature[2] = Secret
  /\ hook.signature # <<"sha512", Secret, hook.body>>
  /\ hook.body.reference \in DOMAIN db_orders
  /\ db_orders[hook.body.reference].status = "pending"

\* C8: a new orders row has status pending; the status of an existing row
\* changes only in a step that handles a webhook request signed with the
\* HMAC of its body, whose reference is the row's id and whose event type
\* names the new status; every status is pending, paid or failed.
C8_StatusWriters ==
  [][/\ \A k \in DOMAIN db_orders' :
          /\ db_orders'[k].status \in {"pending", "paid", "failed"}
          /\ k \notin DOMAIN db_orders => db_orders'[k].status = "pending"
     /\ \A k \in DOMAIN db_orders :
          db_orders'[k].status # db_orders[k].status =>
            /\ hook'.kind = "request"
            /\ hook'.body.kind = "event"
            /\ hook'.signature = <<"sha512", Secret, hook'.body>>
            /\ hook'.body.reference = db_orders[k].id
            /\ \/ hook'.body.event = "charge.success"
                  /\ db_orders'[k].status = "paid"
               \/ hook'.body.event = "charge.failed"
                  /\ db_orders'[k].status = "failed"
            /\ \A c \in Clients : pc'[c] = pc[c]
            /\ provider' = provider]_vars

\* two orders exist, the first was set to paid by a webhook and the second,
\* inserted afterwards by a checkout that has since asked /api/pay, is pending
C8_Witness ==
  /\ Len(db_orders) = 2
  /\ db_orders[1].status = "paid"
  /\ db_orders[2].status = "pending"
  /\ provider # {}
  /\ \A c \in Clients : pc[c] = "idle"

\* the status the claim expects after an event
Expected(event, old) ==
  CASE event = "charge.success" -> "paid"
    [] event = "charge.failed" -> "failed"
    [] OTHER -> old

\* C9: handling a correctly signed event notification whose reference is
\* an existing order is answered 200, leaves that order paid for
\* charge.success, failed for charge.failed and as it was for another event
\* type, and changes no other order.
C9_Dispatch ==
  [][\A body \in Bodies : \A ok \in BOOLEAN :
       (/\ body.kind = "event"
        /\ body.reference \in DOMAIN db_orders
        /\ WebhookPOST(body, <<"sha512", Secret, body>>, ok)) =>
          /\ hook'.status = 200
          /\ db_orders' =
               [k \in DOMAIN db_orders |->
                  IF k = body.reference
                  THEN [db_orders[k] EXCEPT
                          !.status = Expected(body.event, db_orders[k].status)]
                  ELSE db_orders[k]]]_vars

\* C10: from any ledger, handling a correctly signed notification that is
\* answered 200 and then handling it again gives the ledger the first
\* handling gave, whatever the store did with each update call.
C10_Idempotent ==
  \A body \in Bodies : \A ok1 \in BOOLEAN, ok2 \in BOOLEAN :
    LET signature == <<"sha512", Secret, body>>
        first == WebhookOrders(db_orders, body, signature, ok1)
    IN WebhookStatus(body, signature) = 200 =>
         WebhookOrders(first, body, signature, ok2) = first

\* C11: once the status of an order is paid or failed, no step changes it
\* to a different value.
C11_StatusSettlesOnce ==
  [][\A k \in DOMAIN db_orders :
       db_orders[k].status # "pending" =>
         db_orders'[k].status = db_orders[k].status]_vars

\* a correctly signed charge.success or charge.failed notification
Verdicts == {body \in Bodies : body.kind = "event" /\ StatusFor(body.event) # ""}

\* C12: from any ledger, after two correctly signed charge.success /
\* charge.failed notifications for the same existing order have been handled
\* one after the other, the order has the status the second one names,
\* whatever the store did with each update call.
C12_LastWriteWins ==
  \A b1 \in Verdicts, b2 \in Verdicts : \A ok1 \in BOOLEAN, ok2 \in BOOLEAN :
    (b1.reference = b2.reference /\ b2.reference \in DOMAIN db_orders) =>
      LET first == WebhookOrders(db_orders, b1, Hmac(Secret, b1), ok1)
          second == WebhookOrders(first, b2, Hmac(Secret, b2), ok2)
      IN second[b2.reference].status = StatusFor(b2.event)

\* the request just answered carried the HMAC of its body under the secret
Verified == hook'.signature = Hmac(Secret, hook'.body)

\* C13: a correctly signed charge.success or charge.failed notification
\* whose reference is the id of no order is answered 200 and leaves the
\* orders table, rows and statuses, as it was.
C13_UnknownReference ==
  [][(/\ WebhookStep
      /\ Verified
      /\ hook'.body \in Verdicts
      /\ hook'.body.reference \notin DOMAIN db_orders) =>
        (hook'.status = 200 /\ db_orders' = db_orders)]_vars

\* a charge.failed for reference 2 was answered 200 while order 1 is the
\* only order, and order 1 is still pending
C13_Witness ==
  /\ hook.kind = "request"
  /\ hook.status = 200
  /\ hook.body.kind = "event"
  /\ hook.body.event = "charge.failed"
  /\ hook.body.reference = 2
  /\ hook.signature = Hmac(Secret, hook.body)
  /\ Len(db_orders) = 1
  /\ db_orders[1].status = "pending"

\* C14: a correctly signed request whose body is not JSON, or is JSON with
\* no data object, is answered 500 and changes no order.
C14_MalformedBody ==
  [][(/\ WebhookStep
      /\ Verified
      /\ hook'.body.kind \in {"malformed", "nodata"}) =>
        (hook'.status = 500 /\ db_orders' = db_orders)]_vars

\* a signed body that is not JSON was answered 500 while a pending order
\* exists
C14_Witness ==
  /\ hook.kind = "request"
  /\ hook.status = 500
  /\ hook.body.kind = "malformed"
  /\ hook.signature = Hmac(Secret, hook.body)
  /\ Len(db_orders) = 1
  /\ db_orders[1].status = "pending"

\* C15: when the insert of the order row or of the order_items batch
\* resolves with an error, handleCheckout returns with an error shown, sends
\* no request to /api/pay, and leaves the cart as it was.
C15_AbortOnPersistenceFailure ==
  [][\A c \in Clients :
       (InsertOrder(c, FALSE) \/ InsertItems(c, FALSE)) =>
          /\ pc'[c] = "idle"
          /\ result'[c] = "error"
          /\ cart'[c] = cart[c]]_vars

\* C16: when handleCheckout returns after the /api/pay call failed (error
\* status, no authorization_url, or a rejected fetch), the order it inserted
\* is still in the orders table with status pending and its total, and no
\* order_items row has been removed.
C16_PendingAfterPayFailure ==
  [][\A c \in Clients :
       (pc[c] = "pay" /\ pc'[c] = "idle" /\ result'[c] \in {"payfail", "error"}) =>
          /\ co[c].order_id \in DOMAIN db_orders'
          /\ db_orders'[co[c].order_id] =
               [id |-> co[c].order_id, user_id |-> UserId(c),
                total_amount |-> co[c].total, status |-> "pending"]
          /\ db_orders' = db_orders
          /\ db_order_items' = db_order_items]_vars

\* a pay-page checkout whose items were inserted has been told that the
\* payment could not be started; its order is pending
C16_Witness ==
  /\ page["c1"] = "pay"
  /\ result["c1"] = "payfail"
  /\ pc["c1"] = "idle"
  /\ Len(db_orders) = 1
  /\ db_orders[1].status = "pending"
  /\ ItemsCount(db_order_items, 1) = 2

\* C17: a step of handleCheckout that empties the cart is one whose store
\* write succeeded, and by then the order_items of the order are all there.
C17_CartClearedOnlyOnSuccess ==
  [][\A c \in Clients :
       (pc[c] \in {"items", "stock"} /\ cart[c] # <<>> /\ cart'[c] = <<>>) =>
          /\ InsertItems(c, TRUE) \/ UpdateStock(c, TRUE)
          /\ ItemsCount(db_order_items', co[c].order_id) = Len(co[c].cart)]_vars

\* C18: when handleCheckout returns after a success (order and all its
\* order_items inserted; on the pay page, the redirect URL obtained), the
\* cart is empty.
C18_CartEmptyAfterSuccess ==
  [][\A c \in Clients :
       (/\ pc[c] # "idle" /\ pc'[c] = "idle"
        /\ result'[c] \in {"placed", "redirect"}
        /\ ItemsCount(db_order_items', co[c].order_id) = Len(co[c].cart)) =>
          cart'[c] = <<>>]_vars

\* C19: on the two signed-in pages a handleCheckout invoked with no user
\* resolved only asks for the login: it fetches nothing, writes nothing to
\* products, orders and order_items, sends nothing to /api/pay and leaves
\* the cart as it was.
C19_NoUserNoCheckout ==
  [][\A c \in Clients : \A ok \in BOOLEAN :
       (handleCheckout(c, ok) /\ page[c] \in {"pay", "select"} /\ ~user[c]) =>
          /\ result'[c] = "login"
          /\ pc'[c] = "idle"
          /\ co'[c] = NoClosure
          /\ UNCHANGED <<db_products, db_orders, db_order_items>>
          /\ provider' = provider
          /\ cart'[c] = cart[c]]_vars

\* a browser on the second page with no user and a cart the stock covers
\* was asked to log in; nothing was ordered
C19_Witness ==
  /\ page["c1"] = "select"
  /\ ~user["c1"]
  /\ result["c1"] = "login"
  /\ Len(cart["c1"]) = 2
  /\ ~Short("c1")
  /\ db_orders = <<>>
  /\ provider = {}

\* some field of a JSON body is absent
Absent(body) == \E f \in PayFields : f \notin DOMAIN body

\* C20 as stated: a request to /api/pay with a JSON body from which email,
\* amount or reference is absent is answered 400 with no provider call, and
\* one whose body has all three makes the provider call.
C20_AbsentFields ==
  (hook.kind = "pay" /\ hook.body # NotJson) =>
     /\ Absent(hook.body) => (hook.status = 400 /\ ~hook.called)
     /\ ~Absent(hook.body) => hook.called

\* C20: a request to /api/pay with a JSON body in which email, amount or
\* reference is absent or falsy ("" or 0) is answered 400 with no provider
\* call; one whose three fields are all present and truthy makes the
\* provider call; a body that is not JSON is answered 500 with no provider
\* call.
C20_RequiredFields ==
  hook.kind = "pay" =>
    IF hook.body = NotJson THEN hook.status = 500 /\ ~hook.called
    ELSE /\ (\E f \in PayFields : Falsy(hook.body, f)) =>
              (hook.status = 400 /\ ~hook.called)
         /\ (\A f \in PayFields : ~Falsy(hook.body, f)) =>
              /\ hook.called
              /\ hook.outcome = "ok" =>
                   (hook.status = 200 /\ ProviderRequest(hook.body) \in provider)

\* a body with all three fields, its amount 0, was answered 400 with no
\* provider call, after an earlier request had been forwarded to the provider
C20_Witness ==
  /\ hook.kind = "pay"
  /\ DOMAIN hook.body = PayFields
  /\ hook.body.amount = 0
  /\ hook.body.email # ""
  /\ hook.body.reference # 0
  /\ hook.status = 400
  /\ ~hook.called
  /\ provider # {}

\* C21: every request to /api/pay that passes the field check is forwarded
\* to the provider with amount * 100 and the same email and reference, it is
\* the transaction the provider holds when the provider accepts it, and the
\* webhook's amount / 100 of the forwarded amount is the amount again.
C21_MinorUnitRoundTrip ==
  (hook.kind = "pay" /\ hook.called) =>
    LET r == ProviderRequest(hook.body)
    IN /\ r.amount = hook.body.amount * 100
       /\ r.email = hook.body.email
       /\ r.reference = hook.body.reference
       /\ FromKobo(r.amount) = [whole |-> hook.body.amount, cents |-> 0]
       /\ hook.status = 200 => r \in provider

\* a request for amount 2 was accepted and the provider holds a transaction
\* of 200 for its reference
C21_Witness ==
  /\ hook.kind = "pay"
  /\ hook.called
  /\ hook.status = 200
  /\ hook.body.amount = 2
  /\ \E r \in provider : r.amount = 200 /\ r.reference = hook.body.reference

\* C22: a store call of handleCheckout that resolves with an error (the
\* re-fetch, the order insert, the order_items insert, a stock update) ends
\* the checkout with an error shown to the user. (The handlers keep no
\* error for later: one that is not thrown or shown at once is never read.)
C22_NoSilentFailure ==
  [][\A c \in Clients :
       (\/ handleCheckout(c, FALSE) /\ HasUser(c) /\ Len(cart[c]) > 0
        \/ InsertOrder(c, FALSE)
        \/ InsertItems(c, FALSE)
        \/ UpdateStock(c, FALSE)) =>
          /\ pc'[c] = "idle"
          /\ result'[c] \in {"error"} \cup Insufficient]_vars

\* line k of the cart is missing from the products table or asks for more
\* than the table holds
ShortLine(crt, k) ==
  \/ crt[k].product.id \notin DOMAIN db_products
  \/ db_products[crt[k].product.id].stock < crt[k].quantity

\* C23: a handleCheckout that reports insufficient stock names one line of
\* the cart; that line fails against the re-fetched products (or the re-fetch
\* returned nothing) and no line before it in the cart does.
C23_FirstFailingLine ==
  [][\A c \in Clients : \A ok \in BOOLEAN :
       (handleCheckout(c, ok) /\ result'[c] \in Insufficient) =>
          \E k \in 1..Len(cart[c]) :
            /\ result'[c] = NotEnough(cart[c][k])
            /\ ~ok \/ ShortLine(cart[c], k)
            /\ ok => \A j \in 1..(k - 1) : ~ShortLine(cart[c], j)
            /\ ~ok => k = 1]_vars

\* both lines of a cart exceed the stock, p2 comes first, and p2 was named
C23_Witness ==
  /\ Len(cart["c1"]) = 2
  /\ cart["c1"][1].product.id = "p2"
  /\ ShortLine(cart["c1"], 1)
  /\ ShortLine(cart["c1"], 2)
  /\ result["c1"] = NotEnough(cart["c1"][1])
  /\ db_orders = <<>>

\* C24: every cart has at most one line per product id, and every line has
\* 1 <= quantity <= the stock of the product snapshot the line carries.
C24_CartInvariant ==
  \A c \in Clients :
    /\ \A j \in 1..Len(cart[c]) : \A k \in 1..Len(cart[c]) :
         cart[c][j].product.id = cart[c][k].product.id => j = k
    /\ \A k \in 1..Len(cart[c]) :
         /\ 1 <= cart[c][k].quantity
         /\ cart[c][k].quantity <= cart[c][k].product.stock

\* the order rows of c's user whose order_items are the lines of c's cart
OrdersOfCart(c) ==
  {o \in 1..Len(db_orders) :
     /\ db_orders[o].user_id = UserId(c)
     /\ SelectSeq(db_order_items, LAMBDA r : r.order_id = o)
          = OrderItems(cart[c], o)}

\* C25: a cart that handleCheckout is invoked on again after the payment
\* could not be started has at most one order row with its set of
\* order_items.
C25_NoDoubleSubmission ==
  \A c \in Clients :
    (page[c] = "pay" /\ Len(cart[c]) > 0 /\ provider = {})
      => Cardinality(OrdersOfCart(c)) <= 1

\* C26: an order becomes paid only through a notification whose
\* data.amount / 100 equals the order's total_amount.
C26_PaidOnlyForTotal ==
  [][\A k \in DOMAIN db_orders :
       (db_orders[k].status # "paid" /\ db_orders'[k].status = "paid") =>
          /\ hook'.kind = "request"
          /\ FromKobo(hook'.body.amount)
               = [whole |-> db_orders[k].total_amount, cents |-> 0]]_vars

\* C27: when the webhook answers 200 to a charge.success (charge.failed)
\* notification whose reference is an existing order, that order is paid
\* (failed) in the table at that moment.
C27_AcknowledgedMeansWritten ==
  [][(/\ WebhookStep
      /\ hook'.status = 200
      /\ hook'.body.event \in {"charge.success", "charge.failed"}
      /\ hook'.body.reference \in DOMAIN db_orders) =>
        db_orders'[hook'.body.reference].status
          = (IF hook'.body.event = "charge.success" THEN "paid" ELSE "failed")]_vars

\* C28: the orders list of a page with a signed-in user holds only orders
\* of that user.
C28_OwnOrdersOnly ==
  \A c \in Clients :
    (page[c] \in {"pay", "select"} /\ user[c]) =>
      \A k \in orders[c] : db_orders[k].user_id = c

\* C29: once the mount effects have settled on a page that found a cart
\* stored under its key, the in-memory cart is that cart and localStorage
\* still holds it.
C29_CartRoundTrip ==
  \A c \in Clients :
    (/\ page[c] \in {"basic", "pay"}
     /\ effects[c].at = "idle"
     /\ Truthy(effects[c].raw)) =>
       /\ cart[c] = Parse(effects[c].raw)
       /\ localStorage[c][selectedSupermarket[c]] = effects[c].raw

\* C30: in every state, the cart stored under a supermarket's key holds
\* only lines of that supermarket's products.
C30_CartIsolation ==
  \A c \in Clients : \A sm \in Supermarkets :
    Truthy(localStorage[c][sm]) =>
      \A k \in 1..Len(Parse(localStorage[c][sm])) :
        SupermarketOf(Parse(localStorage[c][sm])[k].product.id) = sm

====
